---- MODULE Spec2Model ----
(***************************************************************************)
(* Model of the analytics-and-forecasting engine of the smart energy       *)
(* platform: the EnergyConsumptionPredictor life cycle                     *)
(* (energy_prediction_model.py), the serving layer that shares one         *)
(* predictor between train and forecast requests (main.py and              *)
(* prediction_api.py) and the daily aggregation (analysis.py).             *)
(*                                                                         *)
(* Numbers.  A timestamp is a whole number of hours since                  *)
(* 2026-01-01T00:00.  Energies are whole kWh.  Fitted weights and          *)
(* predictions are exact rationals: a numerator over a positive            *)
(* denominator, so that the two-decimal rounding of predict() is a real    *)
(* conversion and not the identity.                                        *)
(***************************************************************************)
EXTENDS Integers, Sequences, FiniteSets, Bags, TLC

-----------------------------------------------------------------------------
(* Bounds of the model *)

\* longest history handed to train() on the stand-alone predictor
MaxHist == 2
\* longest forecast range, in hours, asked of predict_range()
MaxHorizon == 26

\* timestamps of the training histories (two distinct feature vectors):
\* Thursday 2026-01-01 10:00 and 20:00; a line fitted through them can have
\* negative coefficients and a negative intercept
TrainStamps == {10, 20}
\* energy readings, kWh
Energies == {0, 20}
\* timestamps asked of predict(): inside the training range, just outside it,
\* a weekend, a leap day (2028-02-29 23:00) and a date years away; 09:00 and
\* Sunday 17:00 are the ends of the business hours
QueryStamps == {0, 9, 10, 23, 61, 89, 18959, 40000}
\* range starts and lengths asked of predict_range(); a negative length is an
\* end before the start
RangeStarts == {0, 20, 18959}
RangeLengths == {-3, 0, 3, MaxHorizon}
\* frequency steps, in hours: 'H' and 'D', and the non-positive '-1H' and '0H'
Steps == {-1, 0, 1, 24}

-----------------------------------------------------------------------------
(* Calendar: the datetime accessors used by extract_time_features *)

EpochYear == 2026
\* 2026-01-01 is a Thursday; datetime.weekday() counts Monday as 0
EpochWeekday == 3

IsLeap(y) == (y % 4 = 0 /\ y % 100 # 0) \/ y % 400 = 0

DaysInYear(y) == IF IsLeap(y) THEN 366 ELSE 365

DaysInMonth(y, m) ==
    IF m = 2 THEN (IF IsLeap(y) THEN 29 ELSE 28)
    ELSE IF m \in {4, 6, 9, 11} THEN 30 ELSE 31

RECURSIVE YearAndDay(_, _)
\* the year holding day number `days` (counted from 1 January of year y)
\* and the day's zero-based index within that year
YearAndDay(days, y) ==
    IF days < DaysInYear(y) THEN [year |-> y, doy |-> days]
    ELSE YearAndDay(days - DaysInYear(y), y + 1)

RECURSIVE MonthAndDay(_, _, _)
\* month (1..12) and day of month (1..31) of zero-based day `doy` of year y
MonthAndDay(doy, y, m) ==
    IF doy < DaysInMonth(y, m) THEN [month |-> m, day |-> doy + 1]
    ELSE MonthAndDay(doy - DaysInMonth(y, m), y, m + 1)

DayNumber(t) == t \div 24

HourOf(t) == t % 24

WeekdayOf(t) == (EpochWeekday + DayNumber(t)) % 7

DateOf(t) ==
    LET yd == YearAndDay(DayNumber(t), EpochYear)
        md == MonthAndDay(yd.doy, yd.year, 1)
    IN  [year |-> yd.year, month |-> md.month, day |-> md.day]

-----------------------------------------------------------------------------
(* EnergyConsumptionPredictor: features *)

FeatureNames ==
    <<"hour", "day_of_week", "day_of_month", "month", "is_weekend",
      "is_business_hour">>

NumFeatures == 6

\* mutant: 17:00 still counts as a business hour
ExtractTimeFeatures_ClosedHours(t) ==
    LET hour == HourOf(t)
        day_of_week == WeekdayOf(t)
        day_of_month == DateOf(t).day
        month == DateOf(t).month
        is_weekend == IF day_of_week >= 5 THEN 1 ELSE 0
        is_business_hour == IF 9 <= hour /\ hour <= 17 THEN 1 ELSE 0
    IN  <<hour, day_of_week, day_of_month, month, is_weekend, is_business_hour>>

ExtractTimeFeatures(t) ==
    LET hour == HourOf(t)
        day_of_week == WeekdayOf(t)
        day_of_month == DateOf(t).day
        month == DateOf(t).month
        is_weekend == IF day_of_week >= 5 THEN 1 ELSE 0
        is_business_hour == IF 9 <= hour /\ hour < 17 THEN 1 ELSE 0
    IN  <<hour, day_of_week, day_of_month, month, is_weekend, is_business_hour>>

RECURSIVE Dot(_, _, _)
\* sum over i in 1..n of u[i] * v[i]
Dot(u, v, n) == IF n = 0 THEN 0 ELSE u[n] * v[n] + Dot(u, v, n - 1)

-----------------------------------------------------------------------------
(* EnergyConsumptionPredictor: least-squares fit *)

\* a history is a sequence of readings [timestamp, energy_consumed_kwh]
Reading(t, e) == [timestamp |-> t, energy_consumed_kwh |-> e]

\* prepare_data: one feature row per record, and the target column
PrepareData(data) ==
    [X |-> [i \in 1..Len(data) |-> ExtractTimeFeatures(data[i].timestamp)],
     y |-> [i \in 1..Len(data) |-> data[i].energy_consumed_kwh]]

\* LinearRegression() before fit(): no coef_ and no intercept_
Unfitted == [fitted |-> FALSE]

RECURSIVE CountRows(_, _, _)
\* number of rows i <= n of X equal to the feature vector x
CountRows(X, x, n) ==
    IF n = 0 THEN 0
    ELSE (IF X[n] = x THEN 1 ELSE 0) + CountRows(X, x, n - 1)

RECURSIVE SumTarget(_, _, _, _)
\* sum of y[i] over the rows i <= n of X equal to the feature vector x
SumTarget(X, y, x, n) ==
    IF n = 0 THEN 0
    ELSE (IF X[n] = x THEN y[n] ELSE 0) + SumTarget(X, y, x, n - 1)

\* LinearRegression.fit(X, y) with an intercept, for a design matrix of at
\* most two distinct rows a and b: the least-squares line passes through the
\* two group means, and the minimum-norm coefficient vector lies along b - a.
\* Weights are exact rationals over the common denominator den:
\*   coef_[i] = coef[i] / den, intercept_ = intercept / den.
Fit(X, y) ==
    LET n == Len(X)
        a == X[1]
        others == {i \in 1..n : X[i] # a}
        na == CountRows(X, a, n)
        Sa == SumTarget(X, y, a, n)
    IN  IF others = {}
        THEN [fitted |-> TRUE,
              coef |-> [i \in 1..NumFeatures |-> 0],
              intercept |-> Sa,
              den |-> na]
        ELSE LET b == X[CHOOSE i \in others : \A j \in others : i <= j]
                 nb == CountRows(X, b, n)
                 Sb == SumTarget(X, y, b, n)
                 d == [i \in 1..NumFeatures |-> b[i] - a[i]]
                 D == Dot(d, d, NumFeatures)
                 G == Sb * na - Sa * nb
             IN  [fitted |-> TRUE,
                  coef |-> [i \in 1..NumFeatures |-> G * d[i]],
                  intercept |-> Sa * nb * D - G * Dot(d, a, NumFeatures),
                  den |-> na * nb * D]

\* model.predict for one feature row: intercept_ + sum coef_[i] * x[i],
\* as a numerator over w.den
RawPrediction(w, x) == w.intercept + Dot(w.coef, x, NumFeatures)

\* mutant: the clamp is left out
ClampNegative_Missing(num) == num

\* max(0, prediction) / np.maximum(predictions, 0)
ClampNegative(num) == IF num < 0 THEN 0 ELSE num

\* round(prediction, 2): the nearest hundredth of num / den, ties to even;
\* the result is in hundredths of a kWh
Round2(num, den) ==
    LET q == (100 * num) \div den
        r == (100 * num) % den
    IN  IF 2 * r > den THEN q + 1
        ELSE IF 2 * r < den THEN q
        ELSE q + (q % 2)

\* rational numbers num / den with den > 0
Rat(num, den) == [num |-> num, den |-> den]

RatEq(p, q) == p.num * q.den = q.num * p.den

RatNonNeg(p) == p.num >= 0

-----------------------------------------------------------------------------
(* EnergyConsumptionPredictor: the object and its methods *)

\* __init__: an unfitted LinearRegression, is_trained False, six feature names
NewPredictor ==
    [model |-> Unfitted, is_trained |-> FALSE, feature_names |-> FeatureNames]

\* the message of the RuntimeError raised by predict and predict_range
NotTrainedError == "RuntimeError: Model must be trained before making predictions"

\* the error fit()/predict() of the regression raise on an empty array
EmptyArrayError == "ValueError: empty array"

\* the string explain_model returns for an untrained model
NotTrainedMessage == "Model not trained yet. Call train() first."

Raised(op, err) == [op |-> op, outcome |-> "error", error |-> err]

Returned(op, val) == [op |-> op, outcome |-> "ok", value |-> val]

\* mutant: train clears the flag on entry, so a fit that raises leaves a
\* trained predictor untrained
TrainCall_ClearsFlag(self, data) ==
    LET prepared == PrepareData(data)
    IN  IF Len(data) = 0
        THEN [self |-> [self EXCEPT !.is_trained = FALSE],
              ret |-> Raised("train", EmptyArrayError)]
        ELSE LET w == Fit(prepared.X, prepared.y)
             IN  [self |-> [self EXCEPT !.model = w, !.is_trained = TRUE],
                  ret |-> Returned("train",
                             [coefficients |-> w.coef,
                              intercept |-> w.intercept,
                              den |-> w.den])]

\* mutant: train sets the flag before the fit
TrainCall_FlagBeforeFit(self, data) ==
    LET prepared == PrepareData(data)
    IN  IF Len(data) = 0
        THEN [self |-> [self EXCEPT !.is_trained = TRUE],
              ret |-> Raised("train", EmptyArrayError)]
        ELSE LET w == Fit(prepared.X, prepared.y)
             IN  [self |-> [self EXCEPT !.model = w, !.is_trained = TRUE],
                  ret |-> Returned("train",
                             [coefficients |-> w.coef,
                              intercept |-> w.intercept,
                              den |-> w.den])]

\* mutant: a trained predictor keeps its weights when trained again
TrainCall_KeepsWeights(self, data) ==
    LET prepared == PrepareData(data)
    IN  IF Len(data) = 0
        THEN [self |-> self, ret |-> Raised("train", EmptyArrayError)]
        ELSE LET w == IF self.is_trained THEN self.model
                      ELSE Fit(prepared.X, prepared.y)
             IN  [self |-> [self EXCEPT !.model = w, !.is_trained = TRUE],
                  ret |-> Returned("train",
                             [coefficients |-> w.coef,
                              intercept |-> w.intercept,
                              den |-> w.den])]

\* train(data_df): the predictor after the call and what the call returns.
\* fit() validates its input before it assigns any weight, so a fit that
\* raises leaves the object as it was and is_trained is not assigned.
TrainCall(self, data) ==
    LET prepared == PrepareData(data)
    IN  IF Len(data) = 0
        THEN [self |-> self, ret |-> Raised("train", EmptyArrayError)]
        ELSE LET w == Fit(prepared.X, prepared.y)
             IN  [self |-> [self EXCEPT !.model = w, !.is_trained = TRUE],
                  ret |-> Returned("train",
                             [coefficients |-> w.coef,
                              intercept |-> w.intercept,
                              den |-> w.den])]

\* mutant: the trained check is missing and the unfitted regression raises
\* its own error
PredictCall_NoGuard(self, t) ==
    IF ~self.model.fitted
    THEN [self |-> self, ret |-> Raised("predict", "NotFittedError")]
    ELSE LET features == ExtractTimeFeatures(t)
             prediction == ClampNegative(RawPrediction(self.model, features))
         IN  [self |-> self,
              ret |-> Returned("predict",
                         [timestamp |-> t,
                          predicted_energy_kwh |->
                              Rat(Round2(prediction, self.model.den), 100),
                          features |-> features])]

\* mutant: predict stores the clamped prediction as the new intercept
PredictCall_Mutating(self, t) ==
    IF ~self.is_trained
    THEN [self |-> self, ret |-> Raised("predict", NotTrainedError)]
    ELSE LET features == ExtractTimeFeatures(t)
             prediction == ClampNegative(RawPrediction(self.model, features))
         IN  [self |-> [self EXCEPT !.model.intercept = prediction],
              ret |-> Returned("predict",
                         [timestamp |-> t,
                          predicted_energy_kwh |->
                              Rat(Round2(prediction, self.model.den), 100),
                          features |-> features])]

\* predict(timestamp)
PredictCall(self, t) ==
    IF ~self.is_trained
    THEN [self |-> self, ret |-> Raised("predict", NotTrainedError)]
    ELSE LET features == ExtractTimeFeatures(t)
             prediction == ClampNegative(RawPrediction(self.model, features))
         IN  [self |-> self,
              ret |-> Returned("predict",
                         [timestamp |-> t,
                          predicted_energy_kwh |->
                              Rat(Round2(prediction, self.model.den), 100),
                          features |-> features])]

ZeroStepError == "ZeroDivisionError"

\* mutant: the range stops before end
DateRange_Exclusive(start, end, step) ==
    LET span == IF step > 0 THEN end - start ELSE start - end
        size == IF step > 0 THEN step ELSE 0 - step
        periods == IF span <= 0 THEN 0 ELSE (span - 1) \div size + 1
    IN  [i \in 1..periods |-> start + (i - 1) * step]

\* pd.date_range(start, end, freq) for a step other than 0: start,
\* start + step, ... up to and including end; a positive step gives nothing
\* when end < start, a negative step counts down from start to end and gives
\* nothing when start < end
DateRange(start, end, step) ==
    LET span == IF step > 0 THEN end - start ELSE start - end
        size == IF step > 0 THEN step ELSE 0 - step
        periods == IF span < 0 THEN 0 ELSE span \div size + 1
    IN  [i \in 1..periods |-> start + (i - 1) * step]

\* predict_range(start_date, end_date, frequency)
PredictRangeCall(self, start, end, step) ==
    IF ~self.is_trained
    THEN [self |-> self, ret |-> Raised("predict_range", NotTrainedError)]
    ELSE IF step = 0
    THEN [self |-> self, ret |-> Raised("predict_range", ZeroStepError)]
    ELSE LET timestamps == DateRange(start, end, step)
         IN  IF Len(timestamps) = 0
             THEN [self |-> self, ret |-> Raised("predict_range", EmptyArrayError)]
             ELSE [self |-> self,
                   ret |-> Returned("predict_range",
                      [i \in 1..Len(timestamps) |->
                          [timestamp |-> timestamps[i],
                           predicted_energy_kwh |->
                               Rat(ClampNegative(RawPrediction(self.model,
                                       ExtractTimeFeatures(timestamps[i]))),
                                   self.model.den)]])]

\* explain_model(); `now` is the clock read for the example prediction,
\* which is made for 14:00 of the current day
ExplainCall(self, now) ==
    IF ~self.is_trained
    THEN [self |-> self, ret |-> Returned("explain", NotTrainedMessage)]
    ELSE LET example_time == DayNumber(now) * 24 + 14
             example == PredictCall(self, example_time).ret.value
         IN  [self |-> self,
              ret |-> Returned("explain",
                         [coefficients |-> self.model.coef,
                          intercept |-> self.model.intercept,
                          den |-> self.model.den,
                          example |-> example])]

-----------------------------------------------------------------------------
(* State *)

VARIABLES
    predictor,   \* one EnergyConsumptionPredictor object
    ret,         \* outcome of the last call made on it
    arg,         \* argument of that call
    fitted_on,   \* history of the last train call whose fit completed
    retrained    \* whether that train call replaced other fitted weights

predVars == <<predictor, ret, arg, fitted_on, retrained>>

VARIABLES
    db,                       \* the energy_readings table
    objects,                  \* heap of EnergyConsumptionPredictor objects
    app,                      \* the module that serves: main.py or prediction_api.py
    prediction_model,         \* its global prediction_model
    model_is_trained,         \* main.py: global model_is_trained
    requests                  \* the requests and the position of each handler

serveVars == <<db, objects, app, prediction_model, model_is_trained, requests>>

VARIABLES
    daily_arg,   \* the reading table handed to calculate_daily_consumption
    daily_ret    \* what the call returned

dailyVars == <<daily_arg, daily_ret>>

VARIABLES
    spike_arg,   \* the arguments of a detect_abnormal_spikes call
    spike_ret,   \* its result
    peak_arg,    \* the arguments of an identify_peak_periods call
    peak_ret,    \* its result
    carbon_arg,  \* the request of a carbon computation
    carbon_ret   \* its result

spikeVars == <<spike_arg, spike_ret>>
peakVars == <<peak_arg, peak_ret>>
carbonVars == <<carbon_arg, carbon_ret>>
analysisVars == <<spikeVars, peakVars, carbonVars>>

VARIABLES
    table,            \* the stored readings an analytics endpoint queries
    request,          \* the endpoint called, its machine_id and its region
    pc,               \* the handler's position
    energy_readings,  \* the result of the handler's query
    http_response,    \* the handler's response
    engine_calls      \* the engine functions the handler has called

endpointVars ==
    <<table, request, pc, energy_readings, http_response, engine_calls>>

vars == <<predVars, serveVars, dailyVars, analysisVars, endpointVars>>

\* histories of at most n readings
Histories(n) ==
    UNION {[1..k -> {Reading(t, e) : t \in TrainStamps, e \in Energies}] : k \in 0..n}

NoCall == [op |-> "none", outcome |-> "none"]

PredInit ==
    /\ predictor = NewPredictor
    /\ ret = NoCall
    /\ arg = <<>>
    /\ fitted_on = <<>>
    /\ retrained = FALSE

Train ==
    \E data \in Histories(MaxHist) :
        LET call == TrainCall(predictor, data)
        IN  /\ predictor' = call.self
            /\ ret' = call.ret
            /\ arg' = data
            /\ fitted_on' = IF call.ret.outcome = "ok" THEN data ELSE fitted_on
            /\ retrained' = IF call.ret.outcome = "ok"
                            THEN predictor.is_trained
                                 /\ predictor.model # Fit(PrepareData(data).X,
                                                          PrepareData(data).y)
                            ELSE retrained
            /\ UNCHANGED <<serveVars, dailyVars, endpointVars, analysisVars>>

Predict ==
    \E t \in QueryStamps :
        LET call == PredictCall(predictor, t)
        IN  /\ predictor' = call.self
            /\ ret' = call.ret
            /\ arg' = <<t>>
            /\ UNCHANGED <<fitted_on, retrained, serveVars, dailyVars, endpointVars, analysisVars>>

PredictRange ==
    \E start \in RangeStarts, len \in RangeLengths, step \in Steps :
        LET call == PredictRangeCall(predictor, start, start + len, step)
        IN  /\ start + len >= 0
            /\ predictor' = call.self
            /\ ret' = call.ret
            /\ arg' = <<start, start + len, step>>
            /\ UNCHANGED <<fitted_on, retrained, serveVars, dailyVars, endpointVars, analysisVars>>

Explain ==
    \E now \in QueryStamps :
        LET call == ExplainCall(predictor, now)
        IN  /\ predictor' = call.self
            /\ ret' = call.ret
            /\ arg' = <<now>>
            /\ UNCHANGED <<fitted_on, retrained, serveVars, dailyVars, endpointVars, analysisVars>>

PredNext == Train \/ Predict \/ PredictRange \/ Explain

-----------------------------------------------------------------------------
(* Serving layer: main.py and prediction_api.py.  Each module keeps its own *)
(* global prediction_model; endpoints are plain functions that the server   *)
(* runs on a thread pool, so requests interleave between the statements of  *)
(* the handlers.                                                            *)

\* requests served in one run
MaxRequests == 3
\* the reading table is not grown beyond this many rows
MaxStored == 101

\* "Need 100+ records"
MinTrainRecords == 100

Apps == {"main", "api"}

Kinds == {"train", "forecast"}

\* readings a client adds to the table
IngestReadings == {Reading(0, 20)}

RECURSIVE Copies(_, _)
\* the table holding n copies of reading r
Copies(r, n) == IF n = 0 THEN EmptyBag ELSE Copies(r, n - 1) (+) SetToBag({r})

\* None
None == 0

\* a predictor object on the heap; its regression is described by the table
\* snapshots its coef_ and its intercept_ were fitted on (EmptyBag: unfitted)
NewObject == [is_trained |-> FALSE, coef_from |-> EmptyBag, intercept_from |-> EmptyBag]

FullyFitted(o) == o.coef_from # EmptyBag /\ o.coef_from = o.intercept_from

IdleRequest ==
    [kind |-> "none", pc |-> "idle", df |-> EmptyBag,
     self |-> None, after_train |-> FALSE, status |-> 0, detail |-> "",
     observed |-> NewObject]

\* nothing served yet by main.py
ServeIdle ==
    /\ db = Copies(Reading(0, 20), MinTrainRecords - 1)
    /\ objects = <<>>
    /\ app = "main"
    /\ prediction_model = None
    /\ model_is_trained = FALSE
    /\ requests = [r \in 1..MaxRequests |-> IdleRequest]

\* module start: no model, flag False; the table holds earlier readings
ServeInit ==
    /\ db = Copies(Reading(0, 20), MinTrainRecords - 1)
    /\ objects = <<>>
    /\ app \in Apps
    /\ prediction_model = None
    /\ model_is_trained = FALSE
    /\ requests = [r \in 1..MaxRequests |-> IdleRequest]

Respond(req, status, detail) ==
    [req EXCEPT !.pc = "done", !.status = status, !.detail = detail]

SomeTrainSucceeded ==
    \E r \in 1..MaxRequests :
        /\ requests[r].kind = "train"
        /\ requests[r].pc = "done"
        /\ requests[r].status = 200

\* POST /energy/readings: one more row
AddEnergyReading ==
    /\ BagCardinality(db) < MaxStored
    /\ \E reading \in IngestReadings : db' = db (+) SetToBag({reading})
    /\ UNCHANGED <<objects, app, prediction_model, model_is_trained, requests,
                   predVars, dailyVars, endpointVars, analysisVars>>

\* a request arrives and its handler is entered
StartRequest(r) ==
    /\ requests[r].pc = "idle"
    /\ r > 1 => requests[r - 1].pc # "idle"
    /\ \E kind \in Kinds :
          requests' = [requests EXCEPT ![r] =
              [@ EXCEPT !.kind = kind,
                        !.pc = IF kind = "train" THEN "query" ELSE "guard",
                        !.after_train = SomeTrainSucceeded]]
    /\ UNCHANGED <<db, objects, app, prediction_model, model_is_trained,
                   predVars, dailyVars, endpointVars, analysisVars>>

\* status of the response to the HTTPException(400)
\* raised inside the try block of train_prediction_model: main.py re-raises
\* it, prediction_api.py has no `except HTTPException` clause and its
\* `except Exception` wraps it in a 500
InsufficientDataStatus == IF app = "main" THEN 400 ELSE 500

\* train_prediction_model: query the table and check its size
TrainQuery(r) ==
    /\ requests[r].kind = "train"
    /\ requests[r].pc = "query"
    /\ requests' = [requests EXCEPT ![r] =
          IF BagCardinality(db) < MinTrainRecords
          THEN Respond(@, InsufficientDataStatus, "Insufficient data")
          ELSE [@ EXCEPT !.pc = "create", !.df = db]]
    /\ UNCHANGED <<db, objects, app, prediction_model, model_is_trained,
                   predVars, dailyVars, endpointVars, analysisVars>>

\* prediction_model = EnergyConsumptionPredictor()
TrainCreate(r) ==
    /\ requests[r].kind = "train"
    /\ requests[r].pc = "create"
    /\ objects' = Append(objects, NewObject)
    /\ prediction_model' = Len(objects) + 1
    /\ requests' = [requests EXCEPT ![r].pc = "call_train"]
    /\ UNCHANGED <<db, app, model_is_trained, predVars, dailyVars, endpointVars, analysisVars>>

\* prediction_model.train(df): the global is read again to find the receiver
TrainBind(r) ==
    /\ requests[r].kind = "train"
    /\ requests[r].pc = "call_train"
    /\ requests' = [requests EXCEPT ![r].pc = "fit_coef",
                                    ![r].self = prediction_model]
    /\ UNCHANGED <<db, objects, app, prediction_model, model_is_trained,
                   predVars, dailyVars, endpointVars, analysisVars>>

\* self.model.fit(X, y) assigns coef_ ...
TrainFitCoef(r) ==
    /\ requests[r].kind = "train"
    /\ requests[r].pc = "fit_coef"
    /\ objects' = [objects EXCEPT ![requests[r].self].coef_from = requests[r].df]
    /\ requests' = [requests EXCEPT ![r].pc = "fit_intercept"]
    /\ UNCHANGED <<db, app, prediction_model, model_is_trained,
                   predVars, dailyVars, endpointVars, analysisVars>>

\* ... and then intercept_
TrainFitIntercept(r) ==
    /\ requests[r].kind = "train"
    /\ requests[r].pc = "fit_intercept"
    /\ objects' = [objects EXCEPT ![requests[r].self].intercept_from = requests[r].df]
    /\ requests' = [requests EXCEPT ![r].pc = "set_trained"]
    /\ UNCHANGED <<db, app, prediction_model, model_is_trained,
                   predVars, dailyVars, endpointVars, analysisVars>>

\* self.is_trained = True; train returns its metrics.  prediction_api.py
\* responds here, main.py has one more statement
TrainSetTrained(r) ==
    /\ requests[r].kind = "train"
    /\ requests[r].pc = "set_trained"
    /\ objects' = [objects EXCEPT ![requests[r].self].is_trained = TRUE]
    /\ requests' = [requests EXCEPT ![r] =
          IF app = "main" THEN [@ EXCEPT !.pc = "set_flag"]
          ELSE Respond(@, 200, "success")]
    /\ UNCHANGED <<db, app, prediction_model, model_is_trained,
                   predVars, dailyVars, endpointVars, analysisVars>>

\* main.py: model_is_trained = True, then the response
TrainSetFlag(r) ==
    /\ requests[r].kind = "train"
    /\ requests[r].pc = "set_flag"
    /\ model_is_trained' = TRUE
    /\ requests' = [requests EXCEPT ![r] = Respond(@, 200, "success")]
    /\ UNCHANGED <<db, objects, app, prediction_model, predVars, dailyVars, endpointVars, analysisVars>>

\* the guard of predict_next_seven_days (main.py) and of get_forecast
\* (prediction_api.py)
ModelReady ==
    IF app = "main"
    THEN model_is_trained /\ prediction_model # None
    ELSE prediction_model # None /\ objects[prediction_model].is_trained

ForecastGuard(r) ==
    /\ requests[r].kind = "forecast"
    /\ requests[r].pc = "guard"
    /\ requests' = [requests EXCEPT ![r] =
          IF ModelReady THEN [@ EXCEPT !.pc = "predict"]
          ELSE Respond(@, 400, "Model not trained")]
    /\ UNCHANGED <<db, objects, app, prediction_model, model_is_trained,
                   predVars, dailyVars, endpointVars, analysisVars>>

\* prediction_model.predict_range(...): the global is read again; the
\* RuntimeError of an untrained predictor becomes a 500
ForecastPredict(r) ==
    /\ requests[r].kind = "forecast"
    /\ requests[r].pc = "predict"
    /\ LET o == objects[prediction_model]
       IN  requests' = [requests EXCEPT ![r] =
              IF ~o.is_trained
              THEN [Respond(@, 500, NotTrainedError) EXCEPT !.observed = o]
              ELSE [Respond(@, 200, "success") EXCEPT !.observed = o]]
    /\ UNCHANGED <<db, objects, app, prediction_model, model_is_trained,
                   predVars, dailyVars, endpointVars, analysisVars>>

ServeNext ==
    \/ AddEnergyReading
    \/ \E r \in 1..MaxRequests :
          \/ StartRequest(r)
          \/ TrainQuery(r)
          \/ TrainCreate(r)
          \/ TrainBind(r)
          \/ TrainFitCoef(r)
          \/ TrainFitIntercept(r)
          \/ TrainSetTrained(r)
          \/ TrainSetFlag(r)
          \/ ForecastGuard(r)
          \/ ForecastPredict(r)

-----------------------------------------------------------------------------
(* analysis.py: calculate_daily_consumption *)

\* longest reading table handed to calculate_daily_consumption
MaxReadings == 3

\* timestamps of the readings: 2026-01-01 08:00, 09:00 and 23:00,
\* 2026-01-02 00:00 and 08:00, 2026-02-01 08:00
DailyStamps == {8, 9, 23, 24, 32, 752}
\* energies of the readings, kWh
DailyEnergies == {100, 150, 200}

DailyTables ==
    UNION {[1..k -> {Reading(t, e) : t \in DailyStamps, e \in DailyEnergies}] :
              k \in 0..MaxReadings}

\* order of calendar dates
DateBefore(d1, d2) ==
    \/ d1.year < d2.year
    \/ d1.year = d2.year /\ d1.month < d2.month
    \/ d1.year = d2.year /\ d1.month = d2.month /\ d1.day < d2.day

RECURSIVE SortDates_Descending(_)
\* mutant: the groups come out latest date first
SortDates_Descending(dates) ==
    IF dates = {} THEN <<>>
    ELSE LET first == CHOOSE d \in dates :
                          \A other \in dates \ {d} : DateBefore(other, d)
         IN  <<first>> \o SortDates_Descending(dates \ {first})

RECURSIVE SortDates(_)
\* the dates of a set in ascending order
SortDates(dates) ==
    IF dates = {} THEN <<>>
    ELSE LET first == CHOOSE d \in dates :
                          \A other \in dates \ {d} : DateBefore(d, other)
         IN  <<first>> \o SortDates(dates \ {first})

RECURSIVE GroupSum_First(_, _, _)
\* mutant: the first energy of the group instead of the sum
GroupSum_First(data, date, n) ==
    IF n = 0 THEN 0
    ELSE IF DateOf(data[n].timestamp) = date
              /\ \A i \in 1..(n - 1) : DateOf(data[i].timestamp) # date
         THEN data[n].energy_consumed_kwh
         ELSE GroupSum_First(data, date, n - 1)

RECURSIVE GroupSum(_, _, _)
\* groupby('date')[energy_column].sum() for one date: the sum of the energy
\* of the rows i <= n whose timestamp falls on that date
GroupSum(data, date, n) ==
    IF n = 0 THEN 0
    ELSE (IF DateOf(data[n].timestamp) = date
          THEN data[n].energy_consumed_kwh ELSE 0)
         + GroupSum(data, date, n - 1)

\* calculate_daily_consumption(df): one row per distinct date, ascending
CalculateDailyConsumption(df) ==
    LET dates == SortDates({DateOf(df[i].timestamp) : i \in 1..Len(df)})
    IN  [k \in 1..Len(dates) |->
            [date |-> dates[k],
             total_energy_kwh |-> GroupSum(df, dates[k], Len(df))]]

\* no call of the daily aggregation
DailyIdle ==
    /\ daily_arg = <<>>
    /\ daily_ret = NoCall

\* a table to aggregate
DailyInit ==
    /\ daily_arg \in DailyTables
    /\ daily_ret = NoCall

DailyCall ==
    /\ daily_ret = NoCall
    /\ daily_ret' = Returned("calculate_daily_consumption",
                             CalculateDailyConsumption(daily_arg))
    /\ UNCHANGED <<daily_arg, endpointVars, predVars, serveVars, analysisVars>>

DailyNext == DailyCall

-----------------------------------------------------------------------------
(* Spike detection, src/analysis.py.  Power readings are integers; a rolling *)
(* average and a deviation are exact fractions over WindowDen(window_size),  *)
(* a threshold is a fraction over ThresholdDen.                              *)

MaxRows == 4
PowerValues == {10, 11, 50}
WindowSizes == {0, 1, 2, 3}
ThresholdDen == 2
Thresholds == {-2, 0, 3, 4}
DefaultWindowSize == 5
DefaultDeviationThreshold == 2 * ThresholdDen
ExamplePower == <<10, 11, 12, 11, 10, 50, 11, 10, 9>>
WindowError == "ValueError"

RECURSIVE Factorial(_)
Factorial(n) == IF n <= 1 THEN 1 ELSE n * Factorial(n - 1)

\* a denominator every window length 1..window divides
WindowDen(window) == Factorial(window)

RECURSIVE SumOver(_, _)
\* sum of f over the index set idx
SumOver(f, idx) ==
    IF idx = {} THEN 0
    ELSE LET i == CHOOSE j \in idx : TRUE
         IN  f[i] + SumOver(f, idx \ {i})

\* mutant: a window centred on the row
WindowRows_Centred(n, window, i) ==
    {j \in 1..n : j >= i - (window \div 2) /\ j <= i + ((window - 1) \div 2)}

\* rolling(window, min_periods=1): the row and at most window-1 rows before it
WindowRows(n, window, i) == {j \in 1..n : j >= i - window + 1 /\ j <= i}

\* rolling mean at row i, as a numerator over WindowDen(window)
RollingMean(power, window, i) ==
    LET rows == WindowRows(Len(power), window, i)
    IN  SumOver(power, rows) * (WindowDen(window) \div Cardinality(rows))

\* power - rolling_avg at row i, over the same denominator
Deviation(power, window, i) ==
    power[i] * WindowDen(window) - RollingMean(power, window, i)

\* mutant: the population deviation (ddof = 0)
StdDeviation_Population(devs) ==
    LET n == Len(devs)
        sum == SumOver(devs, 1..n)
        squares == SumOver([i \in 1..n |-> devs[i] * devs[i]], 1..n)
    IN  [defined |-> n >= 1, num |-> n * squares - sum * sum, den |-> n * n]

\* Series.std(): the sample deviation (ddof = 1) of the whole column, kept as
\* its square num/den; NaN (not defined) for fewer than two rows
StdDeviation(devs) ==
    LET n == Len(devs)
        sum == SumOver(devs, 1..n)
        squares == SumOver([i \in 1..n |-> devs[i] * devs[i]], 1..n)
    IN  [defined |-> n >= 2, num |-> n * squares - sum * sum, den |-> n * (n - 1)]

\* mutant: at or above the limit
Exceeds_NonStrict(dev, threshold, std) ==
    LET a == dev * ThresholdDen
    IN  IF ~std.defined THEN FALSE
        ELSE IF threshold = 0 \/ std.num = 0 THEN a >= 0
        ELSE IF threshold > 0
             THEN a > 0 /\ a * a * std.den >= threshold * threshold * std.num
        ELSE a >= 0 \/ a * a * std.den <= threshold * threshold * std.num

\* dev > threshold * std, decided on signs and squares; any comparison with
\* NaN is False
Exceeds(dev, threshold, std) ==
    LET a == dev * ThresholdDen
    IN  IF ~std.defined THEN FALSE
        ELSE IF threshold = 0 \/ std.num = 0 THEN a > 0
        ELSE IF threshold > 0
             THEN a > 0 /\ a * a * std.den > threshold * threshold * std.num
        ELSE a >= 0 \/ a * a * std.den < threshold * threshold * std.num

\* mutant: an empty table is refused
DetectAbnormalSpikes_EmptyRaises(power, window_size, deviation_threshold) ==
    IF window_size < 1 \/ power = <<>>
    THEN Raised("detect_abnormal_spikes", WindowError)
    ELSE LET n == Len(power)
             deviation == [i \in 1..n |-> Deviation(power, window_size, i)]
             std_deviation == StdDeviation(deviation)
         IN  Returned("detect_abnormal_spikes",
                 [i \in 1..n |->
                     [power_kw |-> power[i],
                      rolling_avg |-> RollingMean(power, window_size, i),
                      deviation |-> deviation[i],
                      den |-> WindowDen(window_size),
                      is_anomaly |-> Exceeds(deviation[i], deviation_threshold,
                                             std_deviation)]])

DetectAbnormalSpikes(power, window_size, deviation_threshold) ==
    IF window_size < 1
    THEN Raised("detect_abnormal_spikes", WindowError)
    ELSE LET n == Len(power)
             deviation == [i \in 1..n |-> Deviation(power, window_size, i)]
             std_deviation == StdDeviation(deviation)
         IN  Returned("detect_abnormal_spikes",
                 [i \in 1..n |->
                     [power_kw |-> power[i],
                      rolling_avg |-> RollingMean(power, window_size, i),
                      deviation |-> deviation[i],
                      den |-> WindowDen(window_size),
                      is_anomaly |-> Exceeds(deviation[i], deviation_threshold,
                                             std_deviation)]])

SpikeCall(power, window_size, deviation_threshold) ==
    [power |-> power, window_size |-> window_size,
     deviation_threshold |-> deviation_threshold]

SpikeSeries ==
    UNION {[1..n -> PowerValues] : n \in 0..MaxRows} \cup {ExamplePower}

SpikeIdle ==
    /\ spike_arg = SpikeCall(<<>>, DefaultWindowSize, DefaultDeviationThreshold)
    /\ spike_ret = NoCall

\* a series, a window and a threshold to detect on
SpikeInit ==
    /\ spike_arg \in {SpikeCall(p, w, t) :
                         p \in SpikeSeries, w \in WindowSizes, t \in Thresholds}
    /\ spike_ret = NoCall

Detect ==
    /\ spike_ret = NoCall
    /\ spike_ret' = DetectAbnormalSpikes(spike_arg.power, spike_arg.window_size,
                                         spike_arg.deviation_threshold)
    /\ UNCHANGED <<spike_arg, peakVars, carbonVars, predVars, serveVars, dailyVars, endpointVars>>

SpikeNext == Detect

-----------------------------------------------------------------------------
(* Peak periods, src/analysis.py.  A percentile is a whole number of         *)
(* hundredths; a statistic is an exact fraction, 0/0 standing for NaN.       *)

Percentiles == {-1, 0, 30, 75, 100, 101}
DefaultPercentile == 75
PercentileError == "ValueError"
EmptyFrameError == "ZeroDivisionError"
NaN == Rat(0, 0)

RemoveAt(seq, i) == SubSeq(seq, 1, i - 1) \o SubSeq(seq, i + 1, Len(seq))

\* mutant: the values in input order
SortValues_InputOrder(power) == power

RECURSIVE SortValues(_)
\* the values in ascending order, duplicates kept
SortValues(power) ==
    IF power = <<>> THEN <<>>
    ELSE LET i == CHOOSE k \in 1..Len(power) :
                      \A j \in 1..Len(power) : power[k] <= power[j]
         IN  <<power[i]>> \o SortValues(RemoveAt(power, i))

\* Series.quantile(percentile / 100): linear interpolation between the two
\* order statistics around the rank percentile / 100 * (n - 1)
Quantile(power, percentile) ==
    IF power = <<>> THEN NaN
    ELSE LET sorted == SortValues(power)
             position == percentile * (Len(power) - 1)
             lower == position \div 100
             fraction == position % 100
         IN  Rat(sorted[lower + 1] * 100
                   + (IF fraction = 0 THEN 0
                      ELSE fraction * (sorted[lower + 2] - sorted[lower + 1])),
                 100)

\* mutant: the readings above the threshold only
PeakReadings_Strict(power, threshold) ==
    SelectSeq(power, LAMBDA x : x * threshold.den > threshold.num)

\* df[df[power_column] >= peak_threshold]; a comparison with NaN is False
PeakReadings(power, threshold) ==
    SelectSeq(power, LAMBDA x : threshold.den # 0 /\ x * threshold.den >= threshold.num)

MinOf(values) ==
    IF values = <<>> THEN NaN
    ELSE Rat(CHOOSE x \in {values[i] : i \in 1..Len(values)} :
                 \A i \in 1..Len(values) : x <= values[i], 1)

MaxOf(values) ==
    IF values = <<>> THEN NaN
    ELSE Rat(CHOOSE x \in {values[i] : i \in 1..Len(values)} :
                 \A i \in 1..Len(values) : x >= values[i], 1)

MeanOf(values) == Rat(SumOver(values, 1..Len(values)), Len(values))

IdentifyPeakPeriods(power, percentile) ==
    IF percentile < 0 \/ percentile > 100
    THEN Raised("identify_peak_periods", PercentileError)
    ELSE LET peak_threshold == Quantile(power, percentile)
             peak_readings == PeakReadings(power, peak_threshold)
             peak_count == Len(peak_readings)
             total_count == Len(power)
         IN  IF total_count = 0
             THEN Raised("identify_peak_periods", EmptyFrameError)
             ELSE Returned("identify_peak_periods",
                      [peak_threshold |-> peak_threshold,
                       peak_count |-> peak_count,
                       peak_percentage |-> Rat(peak_count * 100, total_count),
                       average_peak_power |-> MeanOf(peak_readings),
                       min_peak_power |-> MinOf(peak_readings),
                       max_peak_power |-> MaxOf(peak_readings)])

PeakCalls(power, percentiles) == [power |-> power, percentiles |-> percentiles]

PeakSeries == UNION {[1..n -> PowerValues] : n \in 0..MaxRows}

PeakIdle ==
    /\ peak_arg = PeakCalls(<<>>, <<>>)
    /\ peak_ret = <<>>

\* a series and the percentiles of two calls on it
PeakInit ==
    /\ peak_arg \in {PeakCalls(s, <<p, q>>) :
                        s \in PeakSeries, p \in Percentiles, q \in Percentiles}
    /\ peak_ret = <<>>

\* the next call on the series
IdentifyPeaks ==
    /\ Len(peak_ret) < Len(peak_arg.percentiles)
    /\ peak_ret' = Append(peak_ret,
           IdentifyPeakPeriods(peak_arg.power,
                               peak_arg.percentiles[Len(peak_ret) + 1]))
    /\ UNCHANGED <<peak_arg, spikeVars, carbonVars, predVars, serveVars, dailyVars, endpointVars>>

PeakNext == IdentifyPeaks

-----------------------------------------------------------------------------
(* Carbon footprint, src/carbon_footprint.py and the two carbon endpoints   *)
(* of src/main.py.  An emission factor is a whole number of thousandths of  *)
(* kg CO2 per kWh; energies are whole kWh; every amount is an exact         *)
(* fraction.                                                                *)

FactorDen == 1000
EMISSION_FACTORS_BY_REGION ==
    [r \in {"US_Average", "Coal_Heavy", "Natural_Gas", "Renewable_Heavy",
            "UK", "France", "Germany", "India"} |->
        CASE r = "US_Average" -> 385
          [] r = "Coal_Heavy" -> 950
          [] r = "Natural_Gas" -> 500
          [] r = "Renewable_Heavy" -> 100
          [] r = "UK" -> 200
          [] r = "France" -> 60
          [] r = "Germany" -> 380
          [] r = "India" -> 920]
DEFAULT_EMISSION_FACTOR == 385
DefaultRegion == "US_Average"
KgPerTonne == 1000
NotFoundError == "HTTP 404"

ConvertEnergies == {0, 1, 500}
Factors == {DEFAULT_EMISSION_FACTOR, 60, 950}
Regions == {"US_Average", "Coal_Heavy", "France", "Atlantis"}
CarbonStamps == {8, 32, 752}
CarbonEnergies == {250, 500}
CarbonTables ==
    UNION {[1..n -> {Reading(t, e) : t \in CarbonStamps, e \in CarbonEnergies}] :
               n \in 0..MaxReadings}

\* mutant: the factor is added to the energy
CalculateDailyCo2Emissions_Offset(daily_energy_kwh, emission_factor) ==
    Rat(daily_energy_kwh * FactorDen + emission_factor, FactorDen)

\* daily_co2 = daily_energy_kwh * emission_factor
CalculateDailyCo2Emissions(daily_energy_kwh, emission_factor) ==
    Rat(daily_energy_kwh * emission_factor, FactorDen)

\* mutant: the month is the last day only
MonthlySum_LastDay(rows) ==
    IF rows = <<>> THEN Rat(0, FactorDen) ELSE rows[Len(rows)].co2_kg

\* daily_energy['co2_kg'].sum(): the per-day amounts share the denominator
MonthlySum(rows) ==
    Rat(SumOver([k \in 1..Len(rows) |-> rows[k].co2_kg.num], 1..Len(rows)),
        FactorDen)

\* group by date, sum the energy, convert each day, sum the days
CalculateMonthlyCo2FromDataframe(df, emission_factor) ==
    LET daily == CalculateDailyConsumption(df)
        daily_energy ==
            [k \in 1..Len(daily) |->
                [date |-> daily[k].date,
                 total_energy_kwh |-> daily[k].total_energy_kwh,
                 co2_kg |-> Rat(daily[k].total_energy_kwh * emission_factor,
                                FactorDen)]]
    IN  [daily_energy |-> daily_energy,
         monthly_total_co2 |-> MonthlySum(daily_energy)]

\* the report of calculate_co2_with_breakdown: region is copied into the
\* summary, emission_factor is the argument or its default
CalculateCo2WithBreakdown(df, emission_factor, region) ==
    LET result == CalculateMonthlyCo2FromDataframe(df, emission_factor)
        daily_df == result.daily_energy
        monthly_co2 == result.monthly_total_co2
        days == Len(daily_df)
        amounts == [k \in 1..days |-> daily_df[k].co2_kg.num]
    IN  [summary |->
            [region |-> region,
             emission_factor_kg_per_kwh |-> emission_factor,
             total_days_analyzed |-> days,
             total_energy_kwh |->
                 SumOver([k \in 1..days |-> daily_df[k].total_energy_kwh], 1..days),
             monthly_co2_kg |-> monthly_co2,
             monthly_co2_tonnes |-> Rat(monthly_co2.num, monthly_co2.den * KgPerTonne),
             daily_average_co2_kg |-> Rat(monthly_co2.num, monthly_co2.den * days),
             daily_min_co2_kg |-> Rat(MinOf(amounts).num, FactorDen),
             daily_max_co2_kg |-> Rat(MaxOf(amounts).num, FactorDen)],
         daily_breakdown |-> daily_df]

\* the response of GET /analytics/carbon built from the engine's report
CarbonResponse(carbon_report, region) ==
    [region |-> region,
     summary |->
         [total_energy_kwh |-> carbon_report.summary.total_energy_kwh,
          emission_factor_kg_per_kwh |->
              carbon_report.summary.emission_factor_kg_per_kwh,
          monthly_co2_kg |-> carbon_report.summary.monthly_co2_kg,
          monthly_co2_tonnes |-> carbon_report.summary.monthly_co2_tonnes,
          daily_average_co2_kg |-> carbon_report.summary.daily_average_co2_kg,
          daily_min_co2_kg |-> carbon_report.summary.daily_min_co2_kg,
          daily_max_co2_kg |-> carbon_report.summary.daily_max_co2_kg],
     daily_breakdown |-> carbon_report.daily_breakdown]

\* mutant: a region outside the table is refused
GetCarbonFootprint_RejectsUnknown(readings, region) ==
    IF readings = <<>> \/ region \notin DOMAIN EMISSION_FACTORS_BY_REGION
    THEN Raised("get_carbon_footprint", NotFoundError)
    ELSE Returned("get_carbon_footprint",
             CarbonResponse(
                 CalculateCo2WithBreakdown(readings, DEFAULT_EMISSION_FACTOR,
                                           region),
                 region))

\* GET /analytics/carbon: 404 without readings; the region is passed on, the
\* emission factor is not
GetCarbonFootprint(readings, region) ==
    IF readings = <<>>
    THEN Raised("get_carbon_footprint", NotFoundError)
    ELSE Returned("get_carbon_footprint",
             CarbonResponse(
                 CalculateCo2WithBreakdown(readings, DEFAULT_EMISSION_FACTOR,
                                           region),
                 region))

\* round(x, 2) of a float: the nearest hundredth, either neighbour when x is
\* a decimal tie, which no binary float holds exactly
RoundOutcomes(x) ==
    LET q == (100 * x.num) \div x.den
        r == (100 * x.num) % x.den
    IN  IF 2 * r > x.den THEN {Rat(q + 1, 100)}
        ELSE IF 2 * r < x.den THEN {Rat(q, 100)}
        ELSE {Rat(q, 100), Rat(q + 1, 100)}

\* GET /sustainability/carbon: the fixed factor 0.385, every reported amount
\* rounded to two decimals from the unrounded one
GetSustainabilityCarbon(readings) ==
    IF readings = <<>>
    THEN {Raised("get_sustainability_carbon", NotFoundError)}
    ELSE LET emission_factor_kg_per_kwh == DEFAULT_EMISSION_FACTOR
             total_energy_kwh ==
                 SumOver([i \in 1..Len(readings) |->
                             readings[i].energy_consumed_kwh], 1..Len(readings))
             total_co2_kg ==
                 Rat(total_energy_kwh * emission_factor_kg_per_kwh, FactorDen)
             total_co2_tonnes ==
                 Rat(total_co2_kg.num, total_co2_kg.den * KgPerTonne)
         IN  {Returned("get_sustainability_carbon",
                  [emissions |-> [total_kg_co2 |-> kg, total_tonnes_co2 |-> tonnes],
                   energy |-> [total_kwh |-> Rat(total_energy_kwh * 100, 100)]]) :
                  kg \in RoundOutcomes(total_co2_kg),
                  tonnes \in RoundOutcomes(total_co2_tonnes)}

HighEmissions == 50000
ModerateEmissions == 10000
HighDailyAverage == 500
DemandManagementEmissions == 30000
EfficiencyAdvice == "Consider energy efficiency improvements (LED lights, HVAC optimization)"
RenewableAdvice == "Explore renewable energy options (solar, wind)"
DemandAdvice == "Implement demand management to reduce peak consumption"
MonitorAdvice == "Monitor consumption trends to identify anomalies"

\* an amount formatted with one decimal (:.1f): the nearest tenth, as a
\* number of tenths
FormatTenths(x) ==
    LET q == (10 * x.num) \div x.den
        r == (10 * x.num) % x.den
    IN  IF 2 * r > x.den THEN q + 1
        ELSE IF 2 * r < x.den THEN q
        ELSE q + (q % 2)

\* x > limit for a fraction x and a whole limit
Above(x, limit) == x.num > limit * x.den

\* mutant: the limits belong to the upper class
GenerateInsights_Inclusive(monthly_co2, daily_average) ==
    LET tonnes == FormatTenths(Rat(monthly_co2.num, monthly_co2.den * KgPerTonne))
    IN  [observations |->
            <<[text |-> IF monthly_co2.num >= HighEmissions * monthly_co2.den
                        THEN "High monthly emissions"
                        ELSE IF monthly_co2.num >= ModerateEmissions * monthly_co2.den
                        THEN "Moderate monthly emissions"
                        ELSE "Low monthly emissions",
               value |-> tonnes],
              [text |-> "Average daily emissions",
               value |-> FormatTenths(daily_average)]>>,
         recommendations |->
            (IF daily_average.num >= HighDailyAverage * daily_average.den
             THEN <<EfficiencyAdvice, RenewableAdvice>> ELSE <<>>)
            \o (IF Above(monthly_co2, DemandManagementEmissions)
                THEN <<DemandAdvice>> ELSE <<>>)
            \o <<MonitorAdvice>>]

\* generate_insights: one observation on the monthly total, one on the daily
\* average, then the recommendations
GenerateInsights(monthly_co2, daily_average) ==
    LET tonnes == FormatTenths(Rat(monthly_co2.num, monthly_co2.den * KgPerTonne))
    IN  [observations |->
            <<[text |-> IF Above(monthly_co2, HighEmissions)
                        THEN "High monthly emissions"
                        ELSE IF Above(monthly_co2, ModerateEmissions)
                        THEN "Moderate monthly emissions"
                        ELSE "Low monthly emissions",
               value |-> tonnes],
              [text |-> "Average daily emissions",
               value |-> FormatTenths(daily_average)]>>,
         recommendations |->
            (IF Above(daily_average, HighDailyAverage)
             THEN <<EfficiencyAdvice, RenewableAdvice>> ELSE <<>>)
            \o (IF Above(monthly_co2, DemandManagementEmissions)
                THEN <<DemandAdvice>> ELSE <<>>)
            \o <<MonitorAdvice>>]

\* amounts around the limits of generate_insights, in thousandths of a kg
MonthlyAmounts == {0, 9999999, 10000000, 10000001, 30000000, 30000001,
                   49999999, 50000000, 50000001, 120000000}
DailyAmounts == {0, 499999, 500000, 500001, 4000000}

InsightRequest(monthly_co2, daily_average) ==
    [op |-> "generate_insights",
     monthly_co2 |-> monthly_co2, daily_average |-> daily_average]

CarbonOps == {"calculate_daily_co2_emissions", "calculate_co2_with_breakdown",
              "get_carbon_footprint", "get_sustainability_carbon",
              "generate_insights"}

CarbonRequest(op, energy, readings, override, factor, region) ==
    [op |-> op, energy |-> energy, readings |-> readings,
     override |-> override, emission_factor |-> factor, region |-> region]

CarbonIdle ==
    /\ carbon_arg = CarbonRequest("none", 0, <<>>, FALSE,
                                  DEFAULT_EMISSION_FACTOR, DefaultRegion)
    /\ carbon_ret = <<>>

\* a conversion of one day, an engine report on a non-empty table with or
\* without a factor, or a request to one of the two endpoints
CarbonInit ==
    /\ carbon_arg \in
          {CarbonRequest("calculate_daily_co2_emissions", e, <<>>, TRUE, f,
                         DefaultRegion) : e \in ConvertEnergies, f \in Factors}
          \cup {CarbonRequest("calculate_co2_with_breakdown", 0, t, TRUE, f, r) :
                    t \in CarbonTables \ {<<>>}, f \in Factors, r \in Regions}
          \cup {CarbonRequest("calculate_co2_with_breakdown", 0, t, FALSE,
                              DEFAULT_EMISSION_FACTOR, r) :
                    t \in CarbonTables \ {<<>>}, r \in Regions}
          \cup {CarbonRequest("get_carbon_footprint", 0, t, FALSE,
                              DEFAULT_EMISSION_FACTOR, r) :
                    t \in CarbonTables, r \in Regions}
          \cup {CarbonRequest("get_sustainability_carbon", 0, t, FALSE,
                              DEFAULT_EMISSION_FACTOR, DefaultRegion) :
                    t \in CarbonTables}
          \cup {InsightRequest(Rat(m, FactorDen), Rat(d, FactorDen)) :
                    m \in MonthlyAmounts, d \in DailyAmounts}
    /\ carbon_ret = <<>>

\* the conversion of the day's energy, then of twice that energy
ConvertDay ==
    /\ carbon_arg.op = "calculate_daily_co2_emissions"
    /\ Len(carbon_ret) < 2
    /\ carbon_ret' = Append(carbon_ret,
           Returned(carbon_arg.op,
               CalculateDailyCo2Emissions((Len(carbon_ret) + 1) * carbon_arg.energy,
                                          carbon_arg.emission_factor)))
    /\ UNCHANGED <<carbon_arg, spikeVars, peakVars, predVars, serveVars, dailyVars, endpointVars>>

BreakdownReport ==
    /\ carbon_arg.op = "calculate_co2_with_breakdown"
    /\ carbon_ret = <<>>
    /\ carbon_ret' = <<Returned(carbon_arg.op,
           CalculateCo2WithBreakdown(carbon_arg.readings,
                                     carbon_arg.emission_factor,
                                     carbon_arg.region))>>
    /\ UNCHANGED <<carbon_arg, spikeVars, peakVars, predVars, serveVars, dailyVars, endpointVars>>

CarbonEndpoint ==
    /\ carbon_arg.op = "get_carbon_footprint"
    /\ carbon_ret = <<>>
    /\ carbon_ret' = <<GetCarbonFootprint(carbon_arg.readings, carbon_arg.region)>>
    /\ UNCHANGED <<carbon_arg, spikeVars, peakVars, predVars, serveVars, dailyVars, endpointVars>>

SustainabilityEndpoint ==
    /\ carbon_arg.op = "get_sustainability_carbon"
    /\ carbon_ret = <<>>
    /\ \E response \in GetSustainabilityCarbon(carbon_arg.readings) :
          carbon_ret' = <<response>>
    /\ UNCHANGED <<carbon_arg, spikeVars, peakVars, predVars, serveVars, dailyVars, endpointVars>>

\* after a report for a region outside the table, the same report for the
\* default region, for comparison
DefaultRegionReport ==
    /\ carbon_arg.op \in {"calculate_co2_with_breakdown", "get_carbon_footprint"}
    /\ ~carbon_arg.override
    /\ carbon_arg.region \notin DOMAIN EMISSION_FACTORS_BY_REGION
    /\ Len(carbon_ret) = 1
    /\ carbon_ret' = Append(carbon_ret,
           IF carbon_arg.op = "get_carbon_footprint"
           THEN GetCarbonFootprint(carbon_arg.readings, DefaultRegion)
           ELSE Returned(carbon_arg.op,
                    CalculateCo2WithBreakdown(carbon_arg.readings,
                        DEFAULT_EMISSION_FACTOR, DefaultRegion)))
    /\ UNCHANGED <<carbon_arg, spikeVars, peakVars, predVars, serveVars, dailyVars, endpointVars>>

\* generate_insights called twice on the same amounts
Insights ==
    /\ carbon_arg.op = "generate_insights"
    /\ Len(carbon_ret) < 2
    /\ carbon_ret' = Append(carbon_ret,
           Returned(carbon_arg.op,
               GenerateInsights(carbon_arg.monthly_co2, carbon_arg.daily_average)))
    /\ UNCHANGED <<carbon_arg, spikeVars, peakVars, predVars, serveVars, dailyVars, endpointVars>>

CarbonNext ==
    \/ Insights
    \/ ConvertDay
    \/ BreakdownReport
    \/ CarbonEndpoint
    \/ SustainabilityEndpoint
    \/ DefaultRegionReport

-----------------------------------------------------------------------------
(* The analytics endpoints of main.py: query, 404 guard, computation *)

AnalyticsEndpoints ==
    {"get_daily_analytics", "get_carbon_footprint", "get_sustainability_carbon"}

\* machine_id: str = None
AbsentMachineId == "None"
StoredMachines == {"MACHINE-001", "MACHINE-002"}
FilterMachines == {AbsentMachineId, "", "MACHINE-001", "NONEXISTENT-MACHINE"}
EndpointStamps == {8, 32}
EndpointEnergies == {250}
ServerError == "HTTP 500"

StoredReading(m, t, e) ==
    [machine_id |-> m, timestamp |-> t, energy_consumed_kwh |-> e]

StoredTables ==
    UNION {[1..n -> {StoredReading(m, t, e) : m \in StoredMachines,
                        t \in EndpointStamps, e \in EndpointEnergies}] :
               n \in 0..MaxReadings}

\* if machine_id: neither None nor the empty string filters
FilterGiven(machine_id) == machine_id \notin {AbsentMachineId, ""}

\* mutant: the filter is never applied
QueryReadings_Unfiltered(rows, machine_id) == rows

\* db.query(EnergyReading)[.filter(machine_id == machine_id)].all()
QueryReadings(rows, machine_id) ==
    IF FilterGiven(machine_id)
    THEN SelectSeq(rows, LAMBDA reading : reading.machine_id = machine_id)
    ELSE rows

\* mutant: the handler goes on without readings
HasReadings_Always(readings) == TRUE

\* if not energy_readings: raise HTTPException(404)
HasReadings(readings) == readings # <<>>

\* the engine functions a handler calls after the guard
EngineFunctions(endpoint) ==
    IF endpoint = "get_daily_analytics" THEN <<"calculate_daily_consumption">>
    ELSE IF endpoint = "get_carbon_footprint"
    THEN <<"calculate_co2_with_breakdown">>
    ELSE <<>>

\* the body of get_daily_analytics after the guard
DailyAnalyticsResponse(readings, machine_id) ==
    LET daily_consumption == CalculateDailyConsumption(readings)
        totals == [k \in 1..Len(daily_consumption) |->
                      daily_consumption[k].total_energy_kwh]
    IN  [machine_id |-> IF FilterGiven(machine_id) THEN machine_id
                        ELSE "All Machines",
         data_points |-> Len(readings),
         daily_data |-> daily_consumption,
         summary |-> [average_daily_kwh |-> MeanOf(totals),
                      min_daily_kwh |-> MinOf(totals),
                      max_daily_kwh |-> MaxOf(totals),
                      total_days |-> Len(daily_consumption)]]

\* the responses of a handler's body; a frame built from no readings has no
\* columns, the KeyError is turned into a 500
HandlerBody(endpoint, readings, machine_id, region) ==
    IF readings = <<>> THEN {Raised(endpoint, ServerError)}
    ELSE IF endpoint = "get_daily_analytics"
    THEN {Returned(endpoint, DailyAnalyticsResponse(readings, machine_id))}
    ELSE IF endpoint = "get_carbon_footprint"
    THEN {GetCarbonFootprint(readings, region)}
    ELSE GetSustainabilityCarbon(readings)

EndpointIdle ==
    /\ table = <<>>
    /\ request = [endpoint |-> "none", machine_id |-> AbsentMachineId,
                  region |-> DefaultRegion]
    /\ pc = "done"
    /\ energy_readings = <<>>
    /\ http_response = NoCall
    /\ engine_calls = <<>>

\* one request to an analytics endpoint over a stored table
EndpointInit ==
    /\ table \in StoredTables
    /\ request \in [endpoint : AnalyticsEndpoints, machine_id : FilterMachines,
                    region : {DefaultRegion}]
    /\ pc = "query"
    /\ energy_readings = <<>>
    /\ http_response = NoCall
    /\ engine_calls = <<>>

QueryStep ==
    /\ pc = "query"
    /\ energy_readings' = QueryReadings(table, request.machine_id)
    /\ pc' = "validate"
    /\ UNCHANGED <<table, request, http_response, engine_calls>>
    /\ UNCHANGED <<predVars, serveVars, dailyVars, analysisVars>>

NotFound ==
    /\ pc = "validate"
    /\ ~HasReadings(energy_readings)
    /\ http_response' = Raised(request.endpoint, NotFoundError)
    /\ pc' = "done"
    /\ UNCHANGED <<table, request, energy_readings, engine_calls>>
    /\ UNCHANGED <<predVars, serveVars, dailyVars, analysisVars>>

Compute ==
    /\ pc = "validate"
    /\ HasReadings(energy_readings)
    /\ engine_calls' = engine_calls \o EngineFunctions(request.endpoint)
    /\ http_response' \in HandlerBody(request.endpoint, energy_readings,
                                 request.machine_id, request.region)
    /\ pc' = "done"
    /\ UNCHANGED <<table, request, energy_readings>>
    /\ UNCHANGED <<predVars, serveVars, dailyVars, analysisVars>>

EndpointNext == QueryStep \/ NotFound \/ Compute

-----------------------------------------------------------------------------
(* The forecast responses of main.py and prediction_api.py *)

\* the horizon of predict_next_seven_days
SevenDays == 7
\* get_forecast is asked for 1..MaxDays days
MaxDays == 2
\* the clock at the start of a forecast request
RequestTimes == {0, 14, 23, 18959}
HoursPerDay == 24
ModelNotTrainedStatus == "HTTP 400"

RECURSIVE PairwiseSum(_, _, _)
\* f[lo] + ... + f[hi], added pairwise
PairwiseSum(f, lo, hi) ==
    IF lo > hi THEN 0
    ELSE IF lo = hi THEN f[lo]
    ELSE LET mid == (lo + hi) \div 2
         IN  PairwiseSum(f, lo, mid) + PairwiseSum(f, mid + 1, hi)

\* the sum of a column of forecast_df, over the model's denominator
SumPredicted(rows, den) ==
    Rat(PairwiseSum([i \in 1..Len(rows) |-> rows[i].predicted_energy_kwh.num],
                 1, Len(rows)), den)

\* main.py rounds the sums to two decimals, prediction_api.py does not
ForecastAmount(module, x) ==
    IF module = "main" THEN Rat(Round2(x.num, x.den), 100) ELSE x

RECURSIVE DailySummary(_, _, _, _, _)
\* for day_num in range(days): the rows of forecast_df dated start_date +
\* day_num days, summarised when there are any
DailySummary(module, forecast_df, den, start_date, days) ==
    IF days = 0 THEN <<>>
    ELSE LET day == start_date + HoursPerDay * (days - 1)
             day_data == SelectSeq(forecast_df,
                             LAMBDA row : DateOf(row.timestamp) = DateOf(day))
             before == DailySummary(module, forecast_df, den, start_date,
                                    days - 1)
         IN  IF Len(day_data) > 0
             THEN Append(before,
                      [date |-> DateOf(day),
                       total_kwh |-> ForecastAmount(module,
                                         SumPredicted(day_data, den)),
                       hourly_count |-> Len(day_data)])
             ELSE before

\* predict_next_seven_days (main.py) and get_forecast (prediction_api.py)
\* served from predictor self at clock now; of the response, the daily
\* totals and counts and the overall total are modelled
GetForecast(self, module, now, days) ==
    IF ~self.is_trained
    THEN Raised("get_forecast", ModelNotTrainedStatus)
    ELSE LET start_date == now
             end_date == start_date + HoursPerDay * days
             forecast_df ==
                 PredictRangeCall(self, start_date, end_date, 1).ret.value
         IN  Returned("get_forecast",
                 [forecast_days |-> days,
                  daily_summary |->
                      DailySummary(module, forecast_df, self.model.den,
                                   start_date, days),
                  total_forecast_kwh |->
                      ForecastAmount(module,
                          SumPredicted(forecast_df, self.model.den))])

\* the days a module's forecast endpoint can be asked for
ForecastDays(module) == IF module = "main" THEN {SevenDays} ELSE 1..MaxDays

Forecast ==
    \E module \in Apps, now \in RequestTimes :
        \E days \in ForecastDays(module) :
            /\ ret' = GetForecast(predictor, module, now, days)
            /\ arg' = <<module, now, days>>
            /\ UNCHANGED <<predictor, fitted_on, retrained>>
            /\ UNCHANGED <<serveVars, dailyVars, endpointVars, analysisVars>>

ForecastNext == Train \/ Forecast

-----------------------------------------------------------------------------
(* Specifications *)

\* one predictor object, called from one thread
Init ==
    PredInit /\ ServeIdle /\ DailyIdle /\ SpikeIdle /\ PeakIdle /\ CarbonIdle
        /\ EndpointIdle

Next == PredNext

Spec == Init /\ [][Next]_vars

\* the serving layer under concurrent requests
InitServe ==
    PredInit /\ ServeInit /\ DailyIdle /\ SpikeIdle /\ PeakIdle /\ CarbonIdle
        /\ EndpointIdle

SpecServe == InitServe /\ [][ServeNext]_vars

\* the daily aggregation applied to every table within the bounds
InitDaily ==
    PredInit /\ ServeIdle /\ DailyInit /\ SpikeIdle /\ PeakIdle /\ CarbonIdle
        /\ EndpointIdle

SpecDaily == InitDaily /\ [][DailyNext]_vars

\* the spike detection applied to every call within the bounds
InitSpike ==
    PredInit /\ ServeIdle /\ DailyIdle /\ SpikeInit /\ PeakIdle /\ CarbonIdle
        /\ EndpointIdle

SpecSpike == InitSpike /\ [][SpikeNext]_vars

\* the peak analysis called twice on every series within the bounds
InitPeak ==
    PredInit /\ ServeIdle /\ DailyIdle /\ SpikeIdle /\ PeakInit /\ CarbonIdle
        /\ EndpointIdle

SpecPeak == InitPeak /\ [][PeakNext]_vars

\* the four engine functions called on a table without rows
EmptyInit ==
    /\ PredInit /\ ServeIdle /\ DailyIdle /\ CarbonIdle /\ EndpointIdle
    /\ SpikeInit /\ spike_arg.power = <<>>
    /\ PeakInit /\ peak_arg.power = <<>>

TrainEmpty == Train /\ arg' = <<>>

EmptyNext == DailyCall \/ Detect \/ IdentifyPeaks \/ TrainEmpty

SpecEmpty == EmptyInit /\ [][EmptyNext]_vars

\* one request to each analytics endpoint over every stored table within the
\* bounds
InitEndpoint ==
    /\ PredInit /\ ServeIdle /\ DailyIdle /\ SpikeIdle /\ PeakIdle /\ CarbonIdle
    /\ EndpointInit

SpecEndpoint == InitEndpoint /\ [][EndpointNext]_vars

\* one predictor, trained and asked for forecasts by either module's endpoint
SpecForecast == Init /\ [][ForecastNext]_vars

\* the carbon computations applied to every request within the bounds
InitCarbon ==
    PredInit /\ ServeIdle /\ DailyIdle /\ SpikeIdle /\ PeakIdle /\ CarbonInit
        /\ EndpointIdle

SpecCarbon == InitCarbon /\ [][CarbonNext]_vars

-----------------------------------------------------------------------------
(* Properties of the predictor life cycle *)

NeverTrained == fitted_on = <<>>

ReadOps == {"predict", "predict_range", "explain"}

\* C1: on a predictor no train call has fitted, predict and predict_range
\* raise the not-trained error, return nothing and leave it untrained.
C1_UntrainedPredictRaises ==
    (NeverTrained /\ ret.op \in {"predict", "predict_range"}) =>
        /\ ret.outcome = "error"
        /\ ret.error = NotTrainedError
        /\ ~predictor.is_trained
        /\ predictor = NewPredictor

C1_Witness ==
    /\ NeverTrained
    /\ ret.op = "predict_range"
    /\ ret.outcome = "error"

\* C3: the predictor starts untrained; is_trained changes only from false to
\* true, and only in a train call whose fit completed.
C3_TrainedOnlyByFitAndForever ==
    /\ ~predictor.is_trained
    /\ [][(predictor'.is_trained # predictor.is_trained) =>
            /\ ~predictor.is_trained
            /\ ret'.op = "train"
            /\ ret'.outcome = "ok"
            /\ Len(arg') > 0]_vars

\* a trained predictor on which a later train call failed
C3_Witness ==
    /\ predictor.is_trained
    /\ ret.op = "train"
    /\ ret.outcome = "error"

\* C4: every energy predict and predict_range return is >= 0.
C4_PredictionsNonNegative ==
    /\ (ret.op = "predict" /\ ret.outcome = "ok") =>
           RatNonNeg(ret.value.predicted_energy_kwh)
    /\ (ret.op = "predict_range" /\ ret.outcome = "ok") =>
           \A i \in 1..Len(ret.value) :
               RatNonNeg(ret.value[i].predicted_energy_kwh)

\* a forecast with a point where the fitted line is below zero
C4_Witness ==
    /\ ret.op = "predict_range"
    /\ ret.outcome = "ok"
    /\ \E i \in 1..Len(ret.value) :
          /\ RawPrediction(predictor.model,
                 ExtractTimeFeatures(ret.value[i].timestamp)) < 0
          /\ ret.value[i].predicted_energy_kwh.num = 0
    /\ \E i \in 1..NumFeatures : predictor.model.coef[i] < 0
    /\ predictor.model.intercept < 0

\* C5: explain on an untrained predictor fails with the not-trained error
\* and returns no normal result.
C5_ExplainUntrainedRaises ==
    (ret.op = "explain" /\ NeverTrained) =>
        (ret.outcome = "error" /\ ret.error = NotTrainedError)

\* C6: predict, predict_range and explain leave coefficients, intercept,
\* feature names and the trained flag as they were, and what predict returns
\* is determined by the weights of the last fit alone.
C6_PredictionsDoNotMutate ==
    [][(ret'.op \in ReadOps) =>
          /\ predictor' = predictor
          /\ (ret'.op = "predict" /\ ret'.outcome = "ok") =>
                ret'.value.predicted_energy_kwh =
                    PredictCall(TrainCall(NewPredictor, fitted_on).self,
                                arg'[1]).ret.value.predicted_energy_kwh]_vars

\* a trained predictor that has just served a forecast
C6_Witness ==
    /\ predictor.is_trained
    /\ ret.op = "predict_range"
    /\ ret.outcome = "ok"
    /\ Len(ret.value) > 1

\* C7: after a re-train on history D2 every prediction equals that of a
\* fresh predictor trained on D2 only.
C7_RetrainReplacesWeights ==
    predictor.is_trained =>
        LET fresh == TrainCall(NewPredictor, fitted_on).self
        IN  /\ \A t \in QueryStamps :
                  PredictCall(predictor, t).ret = PredictCall(fresh, t).ret
            /\ \A start \in RangeStarts :
                  PredictRangeCall(predictor, start, start + 3, 1).ret =
                      PredictRangeCall(fresh, start, start + 3, 1).ret

\* a re-train that replaced different weights
C7_Witness ==
    /\ predictor.is_trained
    /\ ret.op = "train"
    /\ ret.outcome = "ok"
    /\ retrained

\* C8: train on an empty history raises, returns no metrics and leaves the
\* predictor as it was; an untrained predictor still refuses to predict.
C8_EmptyTrainRaises ==
    [][(ret'.op = "train" /\ arg' = <<>>) =>
          /\ ret'.outcome = "error"
          /\ predictor' = predictor
          /\ ~predictor.is_trained =>
                \A t \in QueryStamps :
                    PredictCall(predictor', t).ret =
                        Raised("predict", NotTrainedError)]_vars

C8_Witness ==
    /\ ret.op = "train"
    /\ arg = <<>>
    /\ ret.outcome = "error"
    /\ ~predictor.is_trained

-----------------------------------------------------------------------------
(* Properties of the serving layer *)

\* C2: a forecast request that starts after a train request
\* has completed successfully is answered from a fully trained model: it
\* never finds the shared model untrained or partly fitted, also while a
\* later train request is in progress.
C2_AtomicPublish ==
    \A r \in 1..MaxRequests :
        (requests[r].kind = "forecast" /\ requests[r].pc = "done"
            /\ requests[r].after_train) =>
                /\ requests[r].status = 200
                /\ requests[r].observed.is_trained
                /\ FullyFitted(requests[r].observed)

\* C9: a train request that finds fewer than 100 readings is answered 400
\* "insufficient data" and leaves the shared model as it was.
C9_InsufficientDataRejected ==
    [][\A r \in 1..MaxRequests :
          (requests[r].pc = "query" /\ requests'[r].pc # "query"
              /\ BagCardinality(db) < MinTrainRecords) =>
                  /\ requests'[r].pc = "done"
                  /\ requests'[r].status = 400
                  /\ requests'[r].detail = "Insufficient data"
                  /\ UNCHANGED <<objects, prediction_model,
                                 model_is_trained>>]_vars

-----------------------------------------------------------------------------
(* Properties of the daily aggregation *)

RECURSIVE SumTotals(_, _)
SumTotals(rows, n) ==
    IF n = 0 THEN 0 ELSE rows[n].total_energy_kwh + SumTotals(rows, n - 1)

RECURSIVE SumEnergy(_, _)
SumEnergy(data, n) ==
    IF n = 0 THEN 0 ELSE data[n].energy_consumed_kwh + SumEnergy(data, n - 1)

\* C10: for a non-empty table the daily totals add up to the energy of all
\* the readings: none is dropped, none is counted twice.
C10_DailyTotalsPreserveEnergy ==
    (daily_ret.outcome = "ok" /\ Len(daily_arg) > 0) =>
        SumTotals(daily_ret.value, Len(daily_ret.value)) =
            SumEnergy(daily_arg, Len(daily_arg))

\* two readings of one day, given out of order, and one of another day
C10_Witness ==
    /\ daily_ret.outcome = "ok"
    /\ Len(daily_arg) = 3
    /\ Len(daily_ret.value) = 2
    /\ daily_arg[1].timestamp > daily_arg[3].timestamp
    /\ daily_ret.value[1].total_energy_kwh = 250

RECURSIVE SumOfRows(_, _)
\* sum of the energy of the rows of data whose index is in the set idx
SumOfRows(data, idx) ==
    IF idx = {} THEN 0
    ELSE LET i == CHOOSE j \in idx : TRUE
         IN  data[i].energy_consumed_kwh + SumOfRows(data, idx \ {i})

\* a calendar date as one number, for comparison
DateKey(d) == d.year * 10000 + d.month * 100 + d.day

\* C11: one row per distinct calendar date of the input, in ascending date
\* order whatever the input order, each total being the sum of the energy of
\* the readings of that date; the readings 100 and 150 of 2026-01-01 and 200
\* of 2026-01-02 give (2026-01-01, 250), (2026-01-02, 200).
C11_OneRowPerDateAscending ==
    daily_ret.outcome = "ok" =>
        LET rows == daily_ret.value
            n == Len(daily_arg)
            day(i) == daily_arg[i].timestamp \div 24
        IN  /\ Len(rows) = Cardinality({day(i) : i \in 1..n})
            /\ \A i \in 1..n : \E k \in 1..Len(rows) :
                  rows[k].date = DateOf(daily_arg[i].timestamp)
            /\ \A k \in 1..(Len(rows) - 1) :
                  DateKey(rows[k].date) < DateKey(rows[k + 1].date)
            /\ \A k \in 1..Len(rows) :
                  rows[k].total_energy_kwh =
                      SumOfRows(daily_arg,
                          {i \in 1..n : DateOf(daily_arg[i].timestamp) = rows[k].date})
            /\ daily_arg = <<Reading(8, 100), Reading(9, 150), Reading(32, 200)>> =>
                  rows = <<[date |-> [year |-> 2026, month |-> 1, day |-> 1],
                            total_energy_kwh |-> 250],
                           [date |-> [year |-> 2026, month |-> 1, day |-> 2],
                            total_energy_kwh |-> 200]>>

\* three dates given latest first, across a month boundary
C11_Witness ==
    /\ daily_ret.outcome = "ok"
    /\ Len(daily_arg) = 3
    /\ daily_arg[1].timestamp = 752
    /\ daily_arg[2].timestamp = 32
    /\ daily_arg[3].timestamp = 8
    /\ Len(daily_ret.value) = 3
    /\ daily_ret.value[1].date.day = 1
    /\ daily_ret.value[3].date.month = 2

-----------------------------------------------------------------------------
(* Properties of the spike detection *)

RECURSIVE SumTo(_, _)
\* f[1] + ... + f[n]
SumTo(f, n) == IF n = 0 THEN 0 ELSE f[n] + SumTo(f, n - 1)

\* the sum of the squared distances of the returned deviations to their mean,
\* times the square of the number of rows
Spread(rows) ==
    LET n == Len(rows)
        total == SumTo([i \in 1..n |-> rows[i].deviation], n)
    IN  SumTo([i \in 1..n |->
                  (n * rows[i].deviation - total) * (n * rows[i].deviation - total)],
              n)

\* deviation[i] > deviation_threshold * S, with S the sample standard deviation
\* of all the returned deviations: S * S = Spread / (n * n * (n - 1))
AboveGlobalLimit(rows, i, threshold) ==
    LET n == Len(rows)
        a == rows[i].deviation * n * ThresholdDen
        lhs == a * a * (n - 1)
        rhs == threshold * threshold * Spread(rows)
    IN  /\ n >= 2
        /\ \/ a > 0 /\ (threshold < 0 \/ lhs > rhs)
           \/ a <= 0 /\ threshold < 0 /\ lhs < rhs

\* C12: a row is flagged if and only if its deviation is greater than
\* deviation_threshold times one standard deviation taken over the whole
\* deviation column of the call; for the power 10, 11, 12, 11, 10, 50, 11, 10, 9
\* with window 3 and threshold 2.0 only the row holding 50 is flagged.
C12_FlagIffAboveGlobalStd ==
    spike_ret.outcome = "ok" =>
        LET rows == spike_ret.value
        IN  /\ \A i \in 1..Len(rows) :
                  rows[i].is_anomaly
                      <=> AboveGlobalLimit(rows, i, spike_arg.deviation_threshold)
            /\ spike_arg = SpikeCall(ExamplePower, 3, 2 * ThresholdDen) =>
                  \A i \in 1..Len(rows) :
                      rows[i].is_anomaly <=> rows[i].power_kw = 50

\* the documented example, and a short series where a row is flagged
C12_Witness ==
    /\ spike_ret.outcome = "ok"
    /\ spike_arg = SpikeCall(ExamplePower, 3, 2 * ThresholdDen)
    /\ spike_ret.value[6].is_anomaly
    /\ ~spike_ret.value[7].is_anomaly

\* C13: whatever the series, the window and the threshold, no row whose
\* deviation is negative or zero is flagged.
C13_OnlyPositiveExcursionsFlagged ==
    spike_ret.outcome = "ok" =>
        \A i \in 1..Len(spike_ret.value) :
            spike_ret.value[i].deviation <= 0 => ~spike_ret.value[i].is_anomaly

RECURSIVE SumRange(_, _, _)
\* f[lo] + ... + f[hi]
SumRange(f, lo, hi) == IF lo > hi THEN 0 ELSE f[lo] + SumRange(f, lo + 1, hi)

IsConstant(power) == \A i, j \in 1..Len(power) : power[i] = power[j]

\* C15: with window_size 1, and on a constant series, every rolling average
\* is the power itself, every deviation is 0 and no row is flagged, whatever
\* the threshold and the length.
C15_ZeroVarianceFlagsNothing ==
    (/\ spike_ret.outcome = "ok"
     /\ spike_arg.window_size = 1 \/ IsConstant(spike_arg.power)) =>
        \A i \in 1..Len(spike_ret.value) :
            /\ spike_ret.value[i].rolling_avg
                   = spike_arg.power[i] * spike_ret.value[i].den
            /\ spike_ret.value[i].deviation = 0
            /\ ~spike_ret.value[i].is_anomaly

\* a varying series under window 1 and a negative threshold
C15_Witness ==
    /\ spike_ret.outcome = "ok"
    /\ spike_arg.window_size = 1
    /\ spike_arg.deviation_threshold < 0
    /\ spike_arg.power = <<10, 50, 11>>
    /\ \A i \in 1..3 : ~spike_ret.value[i].is_anomaly

-----------------------------------------------------------------------------
(* Properties of the peak analysis *)

\* the smallest and the largest reading of a non-empty series
Smallest(power) ==
    CHOOSE x \in {power[i] : i \in 1..Len(power)} :
        \A i \in 1..Len(power) : x <= power[i]

Largest(power) ==
    CHOOSE x \in {power[i] : i \in 1..Len(power)} :
        \A i \in 1..Len(power) : x >= power[i]

\* C16: on one non-empty series the threshold does not decrease when the
\* percentile grows within [0, 100]; percentile 0 gives the smallest reading
\* and percentile 100 the largest.
C16_ThresholdMonotoneInPercentile ==
    /\ \A i, j \in 1..Len(peak_ret) :
          (/\ peak_ret[i].outcome = "ok"
           /\ peak_ret[j].outcome = "ok"
           /\ peak_arg.percentiles[i] <= peak_arg.percentiles[j]) =>
              /\ peak_ret[i].value.peak_threshold.den > 0
              /\ peak_ret[j].value.peak_threshold.den > 0
              /\ peak_ret[i].value.peak_threshold.num
                     * peak_ret[j].value.peak_threshold.den
                 <= peak_ret[j].value.peak_threshold.num
                     * peak_ret[i].value.peak_threshold.den
    /\ \A i \in 1..Len(peak_ret) :
          peak_ret[i].outcome = "ok" =>
              /\ peak_arg.percentiles[i] = 0 =>
                    peak_ret[i].value.peak_threshold.num
                        = Smallest(peak_arg.power)
                            * peak_ret[i].value.peak_threshold.den
              /\ peak_arg.percentiles[i] = 100 =>
                    peak_ret[i].value.peak_threshold.num
                        = Largest(peak_arg.power)
                            * peak_ret[i].value.peak_threshold.den

\* an unsorted series, a lower and a higher percentile, and thresholds that
\* differ
C16_Witness ==
    /\ Len(peak_ret) = 2
    /\ peak_arg.power = <<50, 10, 11, 10>>
    /\ peak_arg.percentiles = <<30, 75>>
    /\ peak_ret[1].outcome = "ok"
    /\ peak_ret[2].outcome = "ok"
    /\ peak_ret[1].value.peak_threshold.num < peak_ret[2].value.peak_threshold.num

RECURSIVE SumOfPower(_, _)
\* the sum of the readings at the positions idx
SumOfPower(power, idx) ==
    IF idx = {} THEN 0
    ELSE LET i == CHOOSE j \in idx : TRUE
         IN  power[i] + SumOfPower(power, idx \ {i})

\* the positions of the readings at or above a threshold
AtOrAbove(power, threshold) ==
    {i \in 1..Len(power) : power[i] * threshold.den >= threshold.num}

-----------------------------------------------------------------------------
(* Properties of the carbon computations *)

\* C18: the conversion of one day is exactly energy_kwh * factor, it is
\* linear in the energy (twice the energy gives twice the amount), and
\* 500 kWh at 0.385 give 192.5 kg.
C18_ConvertExactAndLinear ==
    carbon_arg.op = "calculate_daily_co2_emissions" =>
        /\ \A c \in 1..Len(carbon_ret) :
              /\ carbon_ret[c].outcome = "ok"
              /\ carbon_ret[c].value.den > 0
              /\ carbon_ret[c].value.num * FactorDen
                     = c * carbon_arg.energy * carbon_arg.emission_factor
                         * carbon_ret[c].value.den
        /\ Len(carbon_ret) = 2 =>
              carbon_ret[2].value.num * carbon_ret[1].value.den
                  = 2 * carbon_ret[1].value.num * carbon_ret[2].value.den
        /\ (/\ Len(carbon_ret) >= 1
            /\ carbon_arg.energy = 500
            /\ carbon_arg.emission_factor = 385) =>
              carbon_ret[1].value.num * 10 = 1925 * carbon_ret[1].value.den

\* 500 kWh and then 1000 kWh at the default factor
C18_Witness ==
    /\ carbon_arg.op = "calculate_daily_co2_emissions"
    /\ carbon_arg.energy = 500
    /\ carbon_arg.emission_factor = DEFAULT_EMISSION_FACTOR
    /\ Len(carbon_ret) = 2
    /\ carbon_ret[1].value = Rat(192500, 1000)
    /\ carbon_ret[2].value = Rat(385000, 1000)

ReportOps == {"calculate_co2_with_breakdown", "get_carbon_footprint"}

\* the whole energy of the request's readings
InputEnergy == SumOfRows(carbon_arg.readings, 1..Len(carbon_arg.readings))

\* a carbon report: the monthly total is the sum of the per-day amounts and
\* the input energy times the factor used, the tonnes are the total / 1000
ReportTotalsExact(report, factor) ==
    LET days == report.daily_breakdown
        total == report.summary.monthly_co2_kg
        tonnes == report.summary.monthly_co2_tonnes
    IN  /\ total.den > 0
        /\ tonnes.den > 0
        /\ \A k \in 1..Len(days) : days[k].co2_kg.den = FactorDen
        /\ total.num * FactorDen
               = SumTo([k \in 1..Len(days) |-> days[k].co2_kg.num], Len(days))
                   * total.den
        /\ total.num * FactorDen = InputEnergy * factor * total.den
        /\ tonnes.den % KgPerTonne = 0
        /\ tonnes.num * total.den = total.num * (tonnes.den \div KgPerTonne)

\* C19 as stated: in every report, the sustainability response included, the
\* reported total is the input energy times the factor and the reported
\* tonnes are the reported total divided by 1000.
C19_ReportedTotalsExact ==
    \A c \in 1..Len(carbon_ret) :
        carbon_ret[c].outcome = "ok" =>
            /\ carbon_arg.op \in ReportOps =>
                  ReportTotalsExact(carbon_ret[c].value, carbon_arg.emission_factor)
            /\ carbon_arg.op = "get_sustainability_carbon" =>
                  LET e == carbon_ret[c].value.emissions
                  IN  /\ e.total_kg_co2.num * FactorDen
                             = InputEnergy * DEFAULT_EMISSION_FACTOR
                                 * e.total_kg_co2.den
                      /\ e.total_tonnes_co2.num * e.total_kg_co2.den * KgPerTonne
                             = e.total_kg_co2.num * e.total_tonnes_co2.den

\* x is a whole number of hundredths at most half a hundredth from num / den
RoundedToCents(x, num, den) ==
    /\ x.den = 100
    /\ 2 * (x.num * den - 100 * num) <= den
    /\ 2 * (100 * num - x.num * den) <= den

\* C19 amended: the carbon report's total is the sum of its per-day amounts
\* and the input energy times the factor, and its tonnes are that total
\* divided by 1000; the sustainability response reports the energy times
\* 0.385, and that amount divided by 1000, each rounded to two decimals.
C19_TotalsExactUpToReportRounding ==
    \A c \in 1..Len(carbon_ret) :
        carbon_ret[c].outcome = "ok" =>
            /\ carbon_arg.op \in ReportOps =>
                  ReportTotalsExact(carbon_ret[c].value, carbon_arg.emission_factor)
            /\ carbon_arg.op = "get_sustainability_carbon" =>
                  LET e == carbon_ret[c].value.emissions
                  IN  /\ RoundedToCents(e.total_kg_co2,
                             InputEnergy * DEFAULT_EMISSION_FACTOR, FactorDen)
                      /\ RoundedToCents(e.total_tonnes_co2,
                             InputEnergy * DEFAULT_EMISSION_FACTOR,
                             FactorDen * KgPerTonne)

\* 750 kWh over two days: 288.75 kg reported with 0.29 tonnes
C19_Witness ==
    /\ carbon_arg.op = "get_sustainability_carbon"
    /\ carbon_arg.readings = <<Reading(8, 250), Reading(32, 500)>>
    /\ Len(carbon_ret) = 1
    /\ carbon_ret[1].outcome = "ok"
    /\ carbon_ret[1].value.emissions.total_kg_co2 = Rat(28875, 100)
    /\ carbon_ret[1].value.emissions.total_tonnes_co2 = Rat(29, 100)

\* C20: a report for a known region and without a factor of the caller uses
\* and reports that region's entry of the emission-factor table, so that the
\* reported region and the reported factor agree.
C20_FactorFollowsRegion ==
    \A c \in 1..Len(carbon_ret) :
        (/\ carbon_arg.op \in ReportOps
         /\ ~carbon_arg.override
         /\ carbon_arg.region \in DOMAIN EMISSION_FACTORS_BY_REGION
         /\ carbon_ret[c].outcome = "ok") =>
            LET report == carbon_ret[c].value
                factor == EMISSION_FACTORS_BY_REGION[carbon_arg.region]
            IN  /\ report.summary.emission_factor_kg_per_kwh = factor
                /\ \A k \in 1..Len(report.daily_breakdown) :
                      report.daily_breakdown[k].co2_kg.num * FactorDen
                          = report.daily_breakdown[k].total_energy_kwh * factor
                              * report.daily_breakdown[k].co2_kg.den

\* the numbers of a carbon report or response
ReportNumbers(report) ==
    <<report.summary.emission_factor_kg_per_kwh,
      report.summary.total_energy_kwh,
      report.summary.monthly_co2_kg,
      report.summary.monthly_co2_tonnes,
      report.summary.daily_average_co2_kg,
      report.summary.daily_min_co2_kg,
      report.summary.daily_max_co2_kg,
      report.daily_breakdown>>

\* C21: a carbon report for a region that is not in the emission-factor
\* table does not fail; it uses the default factor 0.385 and has the same
\* numbers as the report of the same readings for US_Average.
C21_UnknownRegionUsesDefault ==
    (/\ carbon_arg.op \in ReportOps
     /\ ~carbon_arg.override
     /\ carbon_arg.region \notin DOMAIN EMISSION_FACTORS_BY_REGION
     /\ carbon_arg.readings # <<>>) =>
        /\ \A c \in 1..Len(carbon_ret) : carbon_ret[c].outcome = "ok"
        /\ Len(carbon_ret) >= 1 =>
              carbon_ret[1].value.summary.emission_factor_kg_per_kwh = 385
        /\ Len(carbon_ret) = 2 =>
              ReportNumbers(carbon_ret[1].value) = ReportNumbers(carbon_ret[2].value)

\* the endpoint asked for an unknown region and then for US_Average
C21_Witness ==
    /\ carbon_arg.op = "get_carbon_footprint"
    /\ carbon_arg.region = "Atlantis"
    /\ carbon_arg.readings = <<Reading(8, 250), Reading(32, 500)>>
    /\ Len(carbon_ret) = 2
    /\ carbon_ret[1].outcome = "ok"
    /\ carbon_ret[1].value.region = "Atlantis"
    /\ carbon_ret[2].value.region = "US_Average"
    /\ carbon_ret[1].value.summary.monthly_co2_kg = Rat(288750, 1000)

LevelTexts == {"High monthly emissions", "Moderate monthly emissions",
               "Low monthly emissions"}

\* C22: the insights hold exactly one observation of the emission level:
\* High iff monthly_total > 50000, Moderate iff 10000 < monthly_total <= 50000,
\* Low otherwise; the two efficiency recommendations appear iff
\* daily_average > 500; the same amounts give the same insights.
C22_InsightsClassification ==
    carbon_arg.op = "generate_insights" =>
        /\ \A c \in 1..Len(carbon_ret) :
              LET out == carbon_ret[c].value
                  m == carbon_arg.monthly_co2
                  d == carbon_arg.daily_average
                  levels == {k \in 1..Len(out.observations) :
                                out.observations[k].text \in LevelTexts}
                  level == out.observations[CHOOSE k \in levels : TRUE].text
                  advice == {out.recommendations[k] :
                                k \in 1..Len(out.recommendations)}
              IN  /\ carbon_ret[c].outcome = "ok"
                  /\ Cardinality(levels) = 1
                  /\ level = "High monthly emissions" <=> m.num > 50000 * m.den
                  /\ level = "Moderate monthly emissions"
                        <=> (m.num > 10000 * m.den /\ m.num <= 50000 * m.den)
                  /\ level = "Low monthly emissions" <=> m.num <= 10000 * m.den
                  /\ EfficiencyAdvice \in advice <=> d.num > 500 * d.den
                  /\ RenewableAdvice \in advice <=> d.num > 500 * d.den
        /\ Len(carbon_ret) = 2 => carbon_ret[1] = carbon_ret[2]

\* exactly 50000 kg a month and exactly 500 kg a day, asked twice
C22_Witness ==
    /\ carbon_arg.op = "generate_insights"
    /\ carbon_arg.monthly_co2 = Rat(50000000, 1000)
    /\ carbon_arg.daily_average = Rat(500000, 1000)
    /\ Len(carbon_ret) = 2
    /\ carbon_ret[2].value.observations[1].text = "Moderate monthly emissions"
    /\ carbon_ret[2].value.observations[1].value = 500
    /\ carbon_ret[2].value.recommendations = <<DemandAdvice, MonitorAdvice>>

-----------------------------------------------------------------------------
(* Properties of the forecasts *)

\* C23: on a trained predictor, with start <= end and a positive step,
\* predict_range returns one point per timestamp start, start + step, ...:
\* the first point is at start, consecutive points are one step apart in
\* ascending order, and the points run through end (the last one is less
\* than a step before end, and is end when end is on the grid).
C23_RangeEvenlySpaced ==
    (/\ ret.op = "predict_range"
     /\ predictor.is_trained
     /\ arg[3] > 0
     /\ arg[1] <= arg[2]) =>
        /\ ret.outcome = "ok"
        /\ LET points == ret.value
               n == Len(points)
           IN  /\ n = (arg[2] - arg[1]) \div arg[3] + 1
               /\ points[1].timestamp = arg[1]
               /\ \A i \in 1..(n - 1) :
                     points[i + 1].timestamp - points[i].timestamp = arg[3]
               /\ points[n].timestamp <= arg[2]
               /\ arg[2] < points[n].timestamp + arg[3]
               /\ (arg[2] - arg[1]) % arg[3] = 0 => points[n].timestamp = arg[2]

\* four hourly points from 20:00 to 23:00
C23_Witness ==
    /\ ret.op = "predict_range"
    /\ ret.outcome = "ok"
    /\ arg = <<20, 23, 1>>
    /\ Len(ret.value) = 4
    /\ ret.value[1].timestamp = 20
    /\ ret.value[4].timestamp = 23

\* C24: on a trained predictor, predict_range with end < start or with a
\* non-positive step fails with an error and returns no forecast.
C24_BadRangeRaises ==
    (/\ ret.op = "predict_range"
     /\ predictor.is_trained
     /\ arg[2] < arg[1] \/ arg[3] <= 0) =>
        ret.outcome = "error"

\* the day of the month and the month of the timestamps asked of predict()
KnownDates ==
    (0 :> <<1, 1>>) @@ (9 :> <<1, 1>>) @@ (10 :> <<1, 1>>) @@ (23 :> <<1, 1>>)
    @@ (61 :> <<3, 1>>) @@ (89 :> <<4, 1>>) @@ (18959 :> <<29, 2>>)
    @@ (40000 :> <<25, 7>>)

C28_PredictEqualsRangePoint ==
    [][(/\ ret.op = "predict"
        /\ ret.outcome = "ok"
        /\ ret'.op = "predict_range"
        /\ ret'.outcome = "ok"
        /\ predictor' = predictor) =>
           \A i \in 1..Len(ret'.value) :
               ret'.value[i].timestamp = arg[1] =>
                   RatEq(ret'.value[i].predicted_energy_kwh,
                         ret.value.predicted_energy_kwh)]_vars

-----------------------------------------------------------------------------
(* Properties of the engine on empty input *)

-----------------------------------------------------------------------------
(* Properties of the analytics endpoints *)

\* no stored reading carries the machine_id the request filters on (a request
\* without a filter matches every stored reading)
NoReadingMatches ==
    \A i \in 1..Len(table) :
        FilterGiven(request.machine_id)
            /\ table[i].machine_id # request.machine_id

\* C26: when no stored reading matches the optional machine_id filter, the
\* daily-analytics, carbon and sustainability endpoints call no engine function
\* and respond 404, never 500 and never a 200 report.
C26_NoMatchIs404 ==
    (request.endpoint \in AnalyticsEndpoints /\ NoReadingMatches) =>
        /\ engine_calls = <<>>
        /\ pc = "done" =>
              /\ http_response.outcome = "error"
              /\ http_response.error = NotFoundError

\* the sustainability endpoint asked for a machine without readings, over a
\* table that holds readings of other machines
C26_Witness ==
    /\ request.endpoint = "get_sustainability_carbon"
    /\ request.machine_id = "NONEXISTENT-MACHINE"
    /\ Len(table) = 2
    /\ pc = "done"
    /\ http_response = Raised("get_sustainability_carbon", NotFoundError)
    /\ engine_calls = <<>>

-----------------------------------------------------------------------------
(* Properties of the served model's flag *)

\* C29: in the serving layer of main.py, whenever model_is_trained is True the
\* shared prediction_model is non-null and itself trained.
C29_FlagImpliesTrainedModel ==
    (app = "main" /\ model_is_trained) =>
        /\ prediction_model # None
        /\ objects[prediction_model].is_trained

-----------------------------------------------------------------------------
(* Properties of the forecast responses *)

\* the Rat sum of the entries' total_kwh; one module's totals share a
\* denominator
SumOfDailyTotals(daily_summary) ==
    Rat(SumOver([k \in 1..Len(daily_summary) |->
                    daily_summary[k].total_kwh.num], 1..Len(daily_summary)),
        daily_summary[1].total_kwh.den)

\* C30: in a forecast response every hourly point of predict_range is counted
\* in exactly one daily_summary entry: the hourly_count of the entries add up
\* to the number of points, and their total_kwh add up to the overall total.
C30_EveryPointInOneDay ==
    (ret.op = "get_forecast" /\ ret.outcome = "ok") =>
        LET daily_summary == ret.value.daily_summary
            points == PredictRangeCall(predictor, arg[2],
                          arg[2] + HoursPerDay * arg[3], 1).ret.value
        IN  /\ SumOver([k \in 1..Len(daily_summary) |->
                           daily_summary[k].hourly_count],
                       1..Len(daily_summary)) = Len(points)
            /\ RatEq(SumOfDailyTotals(daily_summary),
                     ret.value.total_forecast_kwh)

====
